---- MODULE Spec2Model ----
(***************************************************************************)
(* Model of the LangGraph + Amazon Bedrock tool-calling loop of            *)
(* get-weather.ts: a two-node graph (model, tools) over a message log      *)
(* merged by concatenation, with a conditional edge out of the model node. *)
(***************************************************************************)
EXTENDS Integers, Sequences, FiniteSets, TLC

VARIABLES
    messages,       \* GraphState.messages, the conversation log
    pc,             \* node about to run: "model", "tools", or terminal "end" / "failed"
    error,          \* the error invoke() rejected with, "none" while there is none
    bedrockResult,  \* the value assigned from `await bedrockWorkflow.invoke(...)`
    searchLog,      \* inputs searchTool was invoked with, in order
    modelCalls,     \* number of bedrockClient.send calls issued
    command,        \* the ConverseCommand of the latest send
    response        \* what the latest send resolved to

vars == <<messages, pc, error, bedrockResult, searchLog, modelCalls, command, response>>

----------------------------------------------------------------------------
(* Bounds of the exploration *)

\* most content blocks in one gateway response
MaxBlocks == 2
\* most model calls explored in one run
MaxModelCalls == 2

----------------------------------------------------------------------------
(* Strings that the code inspects are sequences of characters *)

Lower == [c \in {"S", "F", "L", "A", "s", "f", "l", "a", "n", " ", "r", "c", "i", "o"} |->
            CASE c = "S" -> "s" [] c = "F" -> "f" [] c = "L" -> "l" [] c = "A" -> "a"
              [] OTHER -> c]

toLowerCase(s) == [i \in 1..Len(s) |-> Lower[s[i]]]

includes(s, sub) ==
    \E k \in 0..(Len(s) - Len(sub)) : \A j \in 1..Len(sub) : s[k + j] = sub[j]

Str_sf == <<"s", "f">>
Str_san_francisco == <<"s", "a", "n", " ", "f", "r", "a", "n", "c", "i", "s", "c", "o">>

\* queries the model may put into a search request
Queries == { <<"S", "F">>, <<"L", "A">> }

\* the input objects a toolUse block may carry: with or without the `query` field
Inputs == {[query |-> q] : q \in Queries} \cup {[city |-> <<"S", "F">>]}

Texts == {"It's sunny."}

\* the tools advertised to the model, bedrockToolConfig.tools, lines 52-71
RegisteredTools == {"search"}

\* the input schema of `search`: an object with the required field `query`, lines 58-67
InputSchemaHolds(input) == "query" \in DOMAIN input

----------------------------------------------------------------------------
(* searchTool, lines 75-84: a value, or the TypeError of calling           *)
(* toLowerCase on an undefined query                                       *)

searchTool(input) ==
    IF "query" \notin DOMAIN input
    THEN [threw |-> TRUE, value |-> "TypeError"]
    ELSE IF \/ includes(toLowerCase(input.query), Str_sf)
            \/ includes(toLowerCase(input.query), Str_san_francisco)
         THEN [threw |-> FALSE, value |-> "It's 60 degrees and foggy in San Francisco."]
         ELSE [threw |-> FALSE, value |-> "It's 90 degrees and sunny."]

----------------------------------------------------------------------------
(* The message log *)

\* a reducer that keeps only the update
reducer_replace(a, b) == b

\* GraphState reducer, line 45
reducer(a, b) == a \o b

\* "toolUse" in block, lines 117 and 157
IsToolUse(block) == "toolUse" \in DOMAIN block

\* a filter that tests for the wrong member of the block union
filterToolUse_toolResult(content) == SelectSeq(content, LAMBDA b : "toolResult" \in DOMAIN b)

RECURSIVE filterToolUse(_)
\* lastMessage.content?.filter("toolUse" in block) ?? [], lines 114-118
filterToolUse(content) ==
    IF content = <<>> THEN <<>>
    ELSE IF IsToolUse(Head(content))
         THEN <<Head(content)>> \o filterToolUse(Tail(content))
         ELSE filterToolUse(Tail(content))

\* a conditional edge that looks at the first block only
shouldContinue_firstBlock(msgs) ==
    LET lastMessage == msgs[Len(msgs)]
    IN IF lastMessage.content # <<>> /\ IsToolUse(lastMessage.content[1])
       THEN "tools" ELSE "__end__"

\* a conditional edge that always routes to the tools node
shouldContinue_alwaysTools(msgs) == "tools"

\* shouldContinue, lines 152-164
shouldContinue(msgs) ==
    LET lastMessage == msgs[Len(msgs)]
        hasToolUse == \E i \in 1..Len(lastMessage.content) : IsToolUse(lastMessage.content[i])
    IN IF hasToolUse THEN "tools" ELSE "__end__"

----------------------------------------------------------------------------
(* The gateway: what bedrockClient.send may resolve to *)

\* the id the gateway gives the block at position i of a response
ToolUseId(i) == i

BlockChoices(i) ==
    {[text |-> t] : t \in Texts}
    \cup {[toolUse |-> [toolUseId |-> ToolUseId(i), name |-> "search", input |-> inp]] :
             inp \in Inputs}
    \cup {[toolUse |-> [toolUseId |-> ToolUseId(i), name |-> "get_weather",
                        input |-> [city |-> <<"S", "F">>]]]}

\* well-formed assistant contents: toolUse ids are unique within the turn
Contents ==
    UNION {{c \in [1..n -> UNION {BlockChoices(i) : i \in 1..n}] :
               \A i \in 1..n : c[i] \in BlockChoices(i)} :
           n \in 0..MaxBlocks}

\* a response carries output.message.content, or lacks the output, the message
\* or the content
Responses ==
    {[stopReason |-> "end_turn"],
     [stopReason |-> "end_turn", output |-> [unknown |-> TRUE]],
     [stopReason |-> "end_turn", output |-> [message |-> [role |-> "assistant"]]]}
    \cup {[stopReason |-> "x", output |-> [message |-> [role |-> "assistant", content |-> c]]] :
             c \in Contents}

\* a default that puts an empty text block where the content is missing
ResponseContent_emptyText(resp) ==
    IF /\ "output" \in DOMAIN resp
       /\ "message" \in DOMAIN resp.output
       /\ "content" \in DOMAIN resp.output.message
    THEN resp.output.message.content
    ELSE <<[text |-> ""]>>

\* response.output?.message?.content ?? [], line 102
ResponseContent(resp) ==
    IF /\ "output" \in DOMAIN resp
       /\ "message" \in DOMAIN resp.output
       /\ "content" \in DOMAIN resp.output.message
    THEN resp.output.message.content
    ELSE <<>>

\* an assistant message that keeps the role of the request side
assistantMessage_userRole(resp) == [role |-> "user", content |-> ResponseContent(resp)]

\* lines 100-103
assistantMessage(resp) == [role |-> "assistant", content |-> ResponseContent(resp)]

\* a command that sends the latest message only
ConverseCommand_lastOnly(msgs) ==
    [modelId |-> "anthropic.claude-3-5-sonnet-20240620-v1:0",
     messages |-> <<msgs[Len(msgs)]>>,
     toolConfig |-> RegisteredTools]

\* new ConverseCommand({modelId, messages: state.messages, toolConfig}), lines 92-96
ConverseCommand(msgs) ==
    [modelId |-> "anthropic.claude-3-5-sonnet-20240620-v1:0",
     messages |-> msgs,
     toolConfig |-> RegisteredTools]

----------------------------------------------------------------------------
(* The run *)

NotAssigned == [unassigned |-> TRUE]

\* before the first send there is neither a command nor a response
NoCommand == [unsent |-> TRUE]
NoResponse == [unreceived |-> TRUE]

\* bedrockWorkflow.invoke({messages: [user text]}), lines 183-190
InitialMessages ==
    << [role |-> "user", content |-> <<[text |-> "What is the weather in Los Angeles?"]>>] >>

Init ==
    /\ messages = reducer(<<>>, InitialMessages)
    /\ pc = "model"
    /\ error = "none"
    /\ bedrockResult = NotAssigned
    /\ searchLog = <<>>
    /\ modelCalls = 0
    /\ command = NoCommand
    /\ response = NoResponse

\* a graph whose model node has no edge to the end
RouteAfterModel_neverEnd(msgs) == IF shouldContinue(msgs) = "tools" THEN "tools" ELSE "model"

\* a graph whose model node loops back to itself instead of entering the tools node
RouteAfterModel_skipTools(msgs) == IF shouldContinue(msgs) = "tools" THEN "model" ELSE "end"

\* where the graph goes after the model node, lines 171-174
RouteAfterModel(msgs) == IF shouldContinue(msgs) = "tools" THEN "tools" ELSE "end"

\* the model node on a response, lines 98-106, and the conditional edge
ModelResolved(resp) ==
    LET new == reducer(messages, <<assistantMessage(resp)>>)
    IN /\ response' = resp
       /\ messages' = new
       /\ pc' = RouteAfterModel(new)
       /\ bedrockResult' = IF RouteAfterModel(new) = "end" THEN [messages |-> new]
                                                          ELSE bedrockResult
       /\ error' = error

\* a model node that swallows the rejection and is run again
ModelRejected_retry ==
    /\ pc' = "model"
    /\ error' = "GatewayError"
    /\ UNCHANGED <<messages, bedrockResult, response>>

\* bedrockClient.send rejects: the node, the graph and invoke reject, line 98
ModelRejected ==
    /\ pc' = "failed"
    /\ error' = "GatewayError"
    /\ UNCHANGED <<messages, bedrockResult, response>>

\* Node: Call Bedrock model, lines 87-107
callBedrockModel ==
    /\ pc = "model"
    /\ modelCalls < MaxModelCalls
    /\ modelCalls' = modelCalls + 1
    /\ command' = ConverseCommand(messages)
    /\ \/ \E resp \in Responses : ModelResolved(resp)
       \/ ModelRejected
    /\ UNCHANGED searchLog

\* lines 140-143
toolResultBlock(toolUse, resultContent) ==
    [toolResult |-> [toolUseId |-> toolUse.toolUseId, content |-> <<[text |-> resultContent]>>]]

\* a push that puts the newest result first
push_unshift(content, block) == <<block>> \o content

\* line 145
push(content, block) == Append(content, block)

\* a result message under a role of its own
toolResultsMessage_toolRole(content) == [role |-> "tool-result", content |-> content]

\* lines 124-127 with the content the loop has filled in
toolResultsMessage(content) == [role |-> "user", content |-> content]

\* lines 133-138: the text for one request, or the exception searchTool throws
resultContentOf(toolUse) ==
    IF toolUse.name = "search"
    THEN searchTool(toolUse.input)
    ELSE [threw |-> FALSE, value |-> "Unknown tool: " \o toolUse.name]

RECURSIVE forToolBlocks(_, _, _)
\* the for loop, lines 129-146, from the blocks still to serve, the content pushed
\* so far and the searchTool inputs so far: an exception leaves the loop at once
forToolBlocks(blocks, content, invoked) ==
    IF blocks = <<>>
    THEN [threw |-> FALSE, value |-> "none", content |-> content, invoked |-> invoked]
    ELSE LET toolUse == Head(blocks).toolUse
             r == resultContentOf(toolUse)
             inv == IF toolUse.name = "search" THEN Append(invoked, toolUse.input) ELSE invoked
         IN IF r.threw
            THEN [threw |-> TRUE, value |-> r.value, content |-> content, invoked |-> inv]
            ELSE forToolBlocks(Tail(blocks), push(content, toolResultBlock(toolUse, r.value)), inv)

\* Node: Execute tools, lines 110-149, and the edge tools -> model, line 175
executeTools ==
    /\ pc = "tools"
    /\ LET lastMessage == messages[Len(messages)]
           toolUseBlocks == filterToolUse(lastMessage.content)
           run == forToolBlocks(toolUseBlocks, <<>>, <<>>)
       IN IF Len(toolUseBlocks) = 0
          THEN /\ pc' = "failed"
               /\ error' = "No tool calls found in message."
               /\ UNCHANGED <<messages, searchLog>>
          ELSE /\ searchLog' = searchLog \o run.invoked
               /\ IF run.threw
                  THEN /\ pc' = "failed"
                       /\ error' = run.value
                       /\ messages' = messages
                  ELSE /\ pc' = "model"
                       /\ error' = error
                       /\ messages' =
                            reducer(messages, <<toolResultsMessage(run.content)>>)
    /\ UNCHANGED <<bedrockResult, modelCalls, command, response>>

\* line 193
finalMessage == bedrockResult.messages[Len(bedrockResult.messages)]

RECURSIVE join(_, _)
\* Array.prototype.join, line 199
join(strs, sep) ==
    IF strs = <<>> THEN ""
    ELSE IF Len(strs) = 1 THEN strs[1]
         ELSE strs[1] \o sep \o join(Tail(strs), sep)

RECURSIVE textsOf(_)
\* filter("text" in block).map(block.text), lines 195-198
textsOf(content) ==
    IF content = <<>> THEN <<>>
    ELSE IF "text" \in DOMAIN Head(content)
         THEN <<Head(content).text>> \o textsOf(Tail(content))
         ELSE textsOf(Tail(content))

\* a final text that is the first text block only
finalTextOf_firstBlock(msg) ==
    IF textsOf(msg.content) = <<>> THEN "" ELSE textsOf(msg.content)[1]

\* lines 194-199
finalTextOf(msg) == join(textsOf(msg.content), "\n")

finalText == finalTextOf(finalMessage)

Next ==
    \/ callBedrockModel
    \/ executeTools

Spec == Init /\ [][Next]_vars

\* the runtime runs the node that is due: an awaited send or tool call settles
FairSpec == Spec /\ WF_vars(callBedrockModel) /\ WF_vars(executeTools)

----------------------------------------------------------------------------
(* Vocabulary of the properties *)

Last(s) == s[Len(s)]

IsPrefix(a, b) == Len(a) <= Len(b) /\ SubSeq(b, 1, Len(a)) = a

\* the tool-request blocks of a message, in order
Requests(msg) == SelectSeq(msg.content, LAMBDA b : "toolUse" \in DOMAIN b)

HasRequests(msg) == msg.role = "assistant" /\ Requests(msg) # <<>>

HasResults(msg) == \E i \in 1..Len(msg.content) : "toolResult" \in DOMAIN msg.content[i]

\* msg answers the requests of asst: one result block per request, same order, same id
Answers(msg, asst) ==
    LET req == Requests(asst)
    IN /\ Len(msg.content) = Len(req)
       /\ \A i \in 1..Len(req) :
             /\ "toolResult" \in DOMAIN msg.content[i]
             /\ msg.content[i].toolResult.toolUseId = req[i].toolUse.toolUseId

\* the text carried by the i-th result block of msg
Payload(msg, i) == msg.content[i].toolResult.content[1].text

\* the tools node ran to completion in this step and appended one message
ToolsAnswered ==
    /\ pc' = "model"
    /\ Len(messages') = Len(messages) + 1
    /\ SubSeq(messages', 1, Len(messages)) = messages
    /\ Answers(Last(messages'), Last(messages))

\* completed model -> tools cycles
ToolCycles == Cardinality({i \in 1..Len(messages) : HasResults(messages[i])})

----------------------------------------------------------------------------
(* Properties *)

\* C1: whenever the tools node runs on a turn with n >= 1 tool requests, it
\* returns one message of exactly n result blocks, the i-th carrying the id of
\* the i-th request.
C1_OneResultPerRequest ==
    [][(pc = "tools" /\ Len(Requests(Last(messages))) >= 1) => ToolsAnswered]_vars

\* C2: an assistant turn without tool requests ends the run in "end" with that
\* turn last in the returned log, and nothing happens after the end: no model
\* call, no tool execution, no change of the log.
C2_NoRequestsMeansDone ==
    [][/\ (pc = "model" /\ Len(messages') > Len(messages) /\ Requests(Last(messages')) = <<>>)
            => /\ pc' = "end"
               /\ bedrockResult' = [messages |-> messages']
               /\ Last(bedrockResult'.messages) = Last(messages')
       /\ (pc = "end") => UNCHANGED vars]_vars

C2_Witness ==
    /\ pc = "end"
    /\ modelCalls = 2
    /\ Len(messages) = 4
    /\ Requests(Last(messages)) = <<>>

\* the turn bounds a caller may ask for; the run takes none (lines 183-190)
CallerTurnBounds == {1}

\* C3: with a model that requests a tool in every turn, the run never makes
\* more model -> tools cycles than the caller's maxTurns.
C3_CycleBound ==
    \A maxTurns \in CallerTurnBounds :
        (\A i \in 1..Len(messages) : messages[i].role = "assistant" => HasRequests(messages[i]))
            => ToolCycles <= maxTurns

\* C4: a turn that requests an unregistered tool is answered in full: the run
\* does not fail, the next node is the model, and each unregistered request
\* gets an unknown-tool payload under its id.
C4_UnknownToolAnswered ==
    [][(/\ pc = "tools"
        /\ \E i \in 1..Len(Requests(Last(messages))) :
              Requests(Last(messages))[i].toolUse.name \notin RegisteredTools)
          => /\ ToolsAnswered
             /\ \A i \in 1..Len(Requests(Last(messages))) :
                   LET toolUse == Requests(Last(messages))[i].toolUse
                   IN toolUse.name \notin RegisteredTools
                        => Payload(Last(messages'), i) = "Unknown tool: " \o toolUse.name]_vars

\* C5: when the executor throws for a request, the turn is still answered in
\* full, the run goes back to the model, and that request's result carries an
\* execution-error payload.
C5_ExecutorFailureContained ==
    [][(/\ pc = "tools"
        /\ \E i \in 1..Len(Requests(Last(messages))) :
              LET toolUse == Requests(Last(messages))[i].toolUse
              IN toolUse.name \in RegisteredTools /\ searchTool(toolUse.input).threw)
          => /\ ToolsAnswered
             /\ \A i \in 1..Len(Requests(Last(messages))) :
                   LET toolUse == Requests(Last(messages))[i].toolUse
                   IN (toolUse.name \in RegisteredTools /\ searchTool(toolUse.input).threw)
                        => Payload(Last(messages'), i)
                             = "ExecutionError: " \o searchTool(toolUse.input).value]_vars

\* C6: a request for a registered tool whose input violates the tool's schema
\* never reaches the executor; it gets a schema-violation payload under its id
\* and the run continues.
C6_SchemaChecked ==
    [][(/\ pc = "tools"
        /\ \E i \in 1..Len(Requests(Last(messages))) :
              LET toolUse == Requests(Last(messages))[i].toolUse
              IN toolUse.name \in RegisteredTools /\ ~InputSchemaHolds(toolUse.input))
          => /\ \A k \in 1..Len(searchLog') : InputSchemaHolds(searchLog'[k])
             /\ ToolsAnswered
             /\ \A i \in 1..Len(Requests(Last(messages))) :
                   LET toolUse == Requests(Last(messages))[i].toolUse
                   IN (toolUse.name \in RegisteredTools /\ ~InputSchemaHolds(toolUse.input))
                        => Payload(Last(messages'), i) = "SchemaViolation"]_vars

\* C7: the log is append-only: across every step the old log is a prefix of
\* the new one.
C7_AppendOnly == [][IsPrefix(messages, messages')]_vars

C7_Witness ==
    /\ Len(messages) = 5
    /\ HasRequests(messages[2]) /\ HasResults(messages[3])
    /\ HasRequests(messages[4]) /\ HasResults(messages[5])

\* C8: every message with tool-result blocks directly follows an assistant
\* message with tool requests and answers exactly those requests, one result
\* per request under the request's id; every assistant message with requests
\* that is not last is directly followed by such a message.
C8_ResultsFollowRequests ==
    \A i \in 1..Len(messages) :
        /\ HasResults(messages[i])
             => /\ i > 1
                /\ HasRequests(messages[i - 1])
                /\ Answers(messages[i], messages[i - 1])
        /\ (HasRequests(messages[i]) /\ i < Len(messages))
             => /\ HasResults(messages[i + 1])
                /\ Answers(messages[i + 1], messages[i])

C8_Witness ==
    /\ Len(messages) >= 4
    /\ Len(messages[2].content) = 2
    /\ Len(Requests(messages[2])) = 2
    /\ Len(messages[3].content) = 2
    /\ messages[3].content[1].toolResult.toolUseId # messages[3].content[2].toolResult.toolUseId

\* C9: a rejected gateway call ends the run in "failed" with the gateway's
\* error: the call appends nothing, is not issued again, and no step follows.
C9_GatewayErrorFails ==
    [][/\ (error' = "GatewayError" /\ error = "none")
            => /\ pc' = "failed"
               /\ messages' = messages
               /\ searchLog' = searchLog
       /\ (pc = "failed") => UNCHANGED vars]_vars

C9_Witness ==
    /\ pc = "failed"
    /\ error = "GatewayError"
    /\ modelCalls = 2
    /\ Len(messages) = 3
    /\ Last(messages).role = "user"

\* C10: when the run has failed, the caller holds a result with the whole log
\* up to the failure.
C10_FailedResultHasLog ==
    (pc = "failed") => (bedrockResult # NotAssigned /\ bedrockResult.messages = messages)

\* the inputs of the requests of msg that go to searchTool, in request order
SearchInputs(msg) ==
    LET req == SelectSeq(Requests(msg), LAMBDA b : b.toolUse.name \in RegisteredTools)
    IN [i \in 1..Len(req) |-> req[i].toolUse.input]

\* C11: the run is one sequential flow: a model call is issued only from the
\* model node and never while the last assistant turn still has unanswered
\* requests; the tools node issues no model call, serves the requests in
\* request order, and its combined result message is in the log before the
\* next model call.
C11_Sequential ==
    [][/\ (modelCalls' > modelCalls)
            => (pc = "model" /\ ~HasRequests(Last(messages)) /\ command'.messages = messages)
       /\ (pc = "tools")
            => /\ modelCalls' = modelCalls
               /\ IsPrefix(searchLog, searchLog')
               /\ IsPrefix(SubSeq(searchLog', Len(searchLog) + 1, Len(searchLog')),
                           SearchInputs(Last(messages)))
               /\ (pc' = "model")
                    => /\ ToolsAnswered
                       /\ searchLog' = searchLog \o SearchInputs(Last(messages))]_vars

C11_Witness ==
    /\ modelCalls = 2
    /\ Len(messages) >= 4
    /\ Len(searchLog) = 2
    /\ searchLog[1] # searchLog[2]
    /\ SearchInputs(messages[2]) = searchLog
    /\ HasResults(messages[3])

\* the lines of the text blocks of msg, joined from the right
RECURSIVE JoinLines(_)
JoinLines(t) ==
    IF Len(t) = 0 THEN ""
    ELSE IF Len(t) = 1 THEN t[1].text
         ELSE JoinLines(SubSeq(t, 1, Len(t) - 1)) \o "\n" \o t[Len(t)].text

\* assistant turns with tool requests
ToolTurns == Cardinality({i \in 1..Len(messages) : HasRequests(messages[i])})

\* C12: a run that ends after k turns with tool requests and one turn without
\* returns a log of exactly m + 2k + 1 messages, m the number of initial
\* messages, and its final text is the text of the last assistant turn.
C12_LengthAndFinalText ==
    (pc = "end")
        => /\ Len(bedrockResult.messages) = Len(InitialMessages) + 2 * ToolTurns + 1
           /\ finalText =
                JoinLines(SelectSeq(Last(messages).content, LAMBDA b : "text" \in DOMAIN b))

C12_Witness ==
    /\ pc = "end"
    /\ ToolTurns = 1
    /\ Len(bedrockResult.messages) = 4
    /\ HasRequests(messages[2]) /\ HasResults(messages[3])
    /\ finalText = "It's sunny."

\* C13: when the run has ended in "end", the last message of the log is an
\* assistant message made of text blocks only, and it is the message taken as
\* the final one.
C13_DoneIsTextOnly ==
    (pc = "end")
        => /\ Last(messages).role = "assistant"
           /\ \A i \in 1..Len(Last(messages).content) :
                 /\ "text" \in DOMAIN Last(messages).content[i]
                 /\ "toolUse" \notin DOMAIN Last(messages).content[i]
           /\ finalMessage = Last(messages)

C13_Witness ==
    /\ pc = "end"
    /\ Len(messages) = 4
    /\ Len(Last(messages).content) = 2
    /\ finalMessage.role = "assistant"

\* C15: the tools node is entered only on a last message with at least one
\* tool request, and the run never fails with the no-tool-calls error.
C15_ToolsOnlyWithRequests ==
    /\ (pc = "tools") => (Last(messages).role = "assistant" /\ Requests(Last(messages)) # <<>>)
    /\ error # "No tool calls found in message."

C15_Witness ==
    /\ pc = "tools"
    /\ modelCalls = 2
    /\ Len(Requests(Last(messages))) = 1
    /\ Len(Last(messages).content) = 2

\* the text blocks of a message
TextBlocks(msg) == SelectSeq(msg.content, LAMBDA b : "text" \in DOMAIN b)

\* C16: an assistant turn with at least one tool request goes to the tools
\* node whatever text blocks surround the requests; the message the tools node
\* appends has one result per request, in the requests' relative order, and no
\* block for any text block.
C16_InterleavedTextIgnored ==
    [][/\ (pc = "model" /\ Len(messages') > Len(messages) /\ Requests(Last(messages')) # <<>>)
            => pc' = "tools"
       /\ (pc = "tools" /\ Len(messages') > Len(messages))
            => /\ Answers(Last(messages'), Last(messages))
               /\ Len(Last(messages').content)
                    = Len(Last(messages).content) - Len(TextBlocks(Last(messages)))]_vars

C16_Witness ==
    /\ Len(messages) >= 3
    /\ Len(messages[2].content) = 2
    /\ "text" \in DOMAIN messages[2].content[1]
    /\ "toolUse" \in DOMAIN messages[2].content[2]
    /\ Len(messages[3].content) = 1
    /\ messages[3].content[1].toolResult.toolUseId = messages[2].content[2].toolUse.toolUseId

\* C17: every model call is sent the whole log as it stands: the first call
\* the initial messages, each later call the history of the call before it
\* extended by exactly one assistant message and one tool-result message.
C17_FullHistorySent ==
    [][(modelCalls' > modelCalls)
          => /\ command'.messages = messages
             /\ (command = NoCommand) => (command'.messages = InitialMessages)
             /\ (command # NoCommand)
                  => /\ Len(command'.messages) = Len(command.messages) + 2
                     /\ IsPrefix(command.messages, command'.messages)
                     /\ HasRequests(command'.messages[Len(command.messages) + 1])
                     /\ HasResults(command'.messages[Len(command.messages) + 2])]_vars

C17_Witness ==
    /\ modelCalls = 2
    /\ command # NoCommand
    /\ Len(command.messages) = 3
    /\ HasRequests(command.messages[2])
    /\ HasResults(command.messages[3])

\* C18: under fair scheduling a turn without tool requests leads to the end of
\* the run, the tools node always hands over (to the model node or to failure),
\* and no step leaves a terminal state.
C18_ReachesDone ==
    /\ (Last(messages).role = "assistant" /\ Requests(Last(messages)) = <<>>) ~> (pc = "end")
    /\ (pc = "tools") ~> (pc \in {"model", "failed"})
    /\ [][(pc \in {"end", "failed"}) => UNCHANGED vars]_vars

C18_Witness ==
    /\ pc = "end"
    /\ error = "none"
    /\ modelCalls = 2
    /\ Len(messages) = 4
    /\ Last(messages).content # <<>>

\* C19: roles alternate user, assistant, user, ... from the single initial
\* user message on, and every model call is sent a history that ends with a
\* user message.
C19_RolesAlternate ==
    /\ \A i \in 1..Len(messages) :
          messages[i].role = IF i % 2 = 1 THEN "user" ELSE "assistant"
    /\ (command # NoCommand) => (Last(command.messages).role = "user")

C19_Witness ==
    /\ Len(messages) = 5
    /\ modelCalls = 2
    /\ HasResults(messages[3]) /\ HasResults(messages[5])
    /\ Len(command.messages) = 3

\* the response has no output, no message or no content
LacksContent(resp) ==
    \/ "output" \notin DOMAIN resp
    \/ "message" \notin DOMAIN resp.output
    \/ "content" \notin DOMAIN resp.output.message

\* C20: a model call that resolves to a response without output message or
\* content appends exactly one assistant message with empty content and ends
\* the run in "end".
C20_EmptyResponseEnds ==
    [][(modelCalls' > modelCalls /\ response' # NoResponse /\ LacksContent(response'))
          => /\ Len(messages') = Len(messages) + 1
             /\ IsPrefix(messages, messages')
             /\ Last(messages') = [role |-> "assistant", content |-> <<>>]
             /\ pc' = "end"
             /\ error' = "none"
             /\ bedrockResult' = [messages |-> messages']]_vars

C20_Witness ==
    /\ pc = "end"
    /\ response # NoResponse
    /\ LacksContent(response)
    /\ "output" \in DOMAIN response
    /\ Len(messages) = 4
    /\ Last(messages).content = <<>>

====
